---- MODULE Spec2Model ----
(***************************************************************************)
(* Telco churn serving stack: the serving-time feature transformation      *)
(* (_serve_transform), the prediction service (predict), the REST and form *)
(* surfaces (get_prediction, gradio_interface, root) and startup model     *)
(* resolution.                                                             *)
(*                                                                         *)
(* Representation.  A Python str is a sequence of one-character strings,   *)
(* so that strip, concatenation and parsing are computed.  A cell value is *)
(* a record [t, s, n]: t is the dtype tag ("str", "int", "bool", "nan"),   *)
(* s the text of a str, n the number of an int/bool.  A dict is a sequence *)
(* of [name, val] pairs with distinct names (insertion order); a one-row   *)
(* DataFrame is the sequence of its columns [name, val].  Probabilities    *)
(* are fixed-point integers in hundredths (0.35 is 35, -1.0 is -100).      *)
(***************************************************************************)
EXTENDS Integers, Sequences, FiniteSets, TLC

\* ------------------------------------------------------------------------
\* Text literals: the field names of the raw customer record
\* ------------------------------------------------------------------------
gender == <<"g", "e", "n", "d", "e", "r">>
SeniorCitizen == <<"S", "e", "n", "i", "o", "r", "C", "i", "t", "i", "z", "e", "n">>
Partner == <<"P", "a", "r", "t", "n", "e", "r">>
Dependents == <<"D", "e", "p", "e", "n", "d", "e", "n", "t", "s">>
PhoneService == <<"P", "h", "o", "n", "e", "S", "e", "r", "v", "i", "c", "e">>
MultipleLines == <<"M", "u", "l", "t", "i", "p", "l", "e", "L", "i", "n", "e", "s">>
InternetService == <<"I", "n", "t", "e", "r", "n", "e", "t", "S", "e", "r", "v", "i", "c", "e">>
OnlineSecurity == <<"O", "n", "l", "i", "n", "e", "S", "e", "c", "u", "r", "i", "t", "y">>
OnlineBackup == <<"O", "n", "l", "i", "n", "e", "B", "a", "c", "k", "u", "p">>
DeviceProtection == <<"D", "e", "v", "i", "c", "e", "P", "r", "o", "t", "e", "c", "t", "i", "o", "n">>
TechSupport == <<"T", "e", "c", "h", "S", "u", "p", "p", "o", "r", "t">>
StreamingTV == <<"S", "t", "r", "e", "a", "m", "i", "n", "g", "T", "V">>
StreamingMovies == <<"S", "t", "r", "e", "a", "m", "i", "n", "g", "M", "o", "v", "i", "e", "s">>
Contract == <<"C", "o", "n", "t", "r", "a", "c", "t">>
PaperlessBilling == <<"P", "a", "p", "e", "r", "l", "e", "s", "s", "B", "i", "l", "l", "i", "n", "g">>
PaymentMethod == <<"P", "a", "y", "m", "e", "n", "t", "M", "e", "t", "h", "o", "d">>
tenure == <<"t", "e", "n", "u", "r", "e">>
MonthlyCharges == <<"M", "o", "n", "t", "h", "l", "y", "C", "h", "a", "r", "g", "e", "s">>
TotalCharges == <<"T", "o", "t", "a", "l", "C", "h", "a", "r", "g", "e", "s">>

\* ------------------------------------------------------------------------
\* Text literals: category values
\* ------------------------------------------------------------------------
s_Female == <<"F", "e", "m", "a", "l", "e">>
s_Male == <<"M", "a", "l", "e">>
s_No == <<"N", "o">>
s_Yes == <<"Y", "e", "s">>
s_Other == <<"O", "t", "h", "e", "r">>
s_NoPhoneService == <<"N", "o", " ", "p", "h", "o", "n", "e", " ", "s", "e", "r", "v", "i", "c", "e">>
s_DSL == <<"D", "S", "L">>
s_FiberOptic == <<"F", "i", "b", "e", "r", " ", "o", "p", "t", "i", "c">>
s_MonthToMonth == <<"M", "o", "n", "t", "h", "-", "t", "o", "-", "m", "o", "n", "t", "h">>
s_OneYear == <<"O", "n", "e", " ", "y", "e", "a", "r">>
s_TwoYear == <<"T", "w", "o", " ", "y", "e", "a", "r">>
s_ElectronicCheck == <<"E", "l", "e", "c", "t", "r", "o", "n", "i", "c", " ", "c", "h", "e", "c", "k">>
s_MailedCheck == <<"M", "a", "i", "l", "e", "d", " ", "c", "h", "e", "c", "k">>
s_NoInternetService == <<"N", "o", " ", "i", "n", "t", "e", "r", "n", "e", "t", " ", "s", "e", "r", "v", "i", "c", "e">>
s_BankTransfer == <<"B", "a", "n", "k", " ", "t", "r", "a", "n", "s", "f", "e", "r", " ", "(", "a", "u", "t", "o", "m", "a", "t", "i", "c", ")">>
s_CreditCard == <<"C", "r", "e", "d", "i", "t", " ", "c", "a", "r", "d", " ", "(", "a", "u", "t", "o", "m", "a", "t", "i", "c", ")">>
s_abc == <<"a", "b", "c">>
s_12 == <<"1", "2">>
s_nan == <<"n", "a", "n">>

\* ------------------------------------------------------------------------
\* Bounds of the model
\* ------------------------------------------------------------------------
MaxPad == 1      \* most spaces put around a padded value or key
MaxLabel == 1    \* largest hard class label the classifier returns

\* ------------------------------------------------------------------------
\* Python str operations
\* ------------------------------------------------------------------------
IsSpace(ch) == ch \in {" ", "\t", "\n"}

RECURSIVE LStrip(_)
LStrip(s) == IF s # <<>> /\ IsSpace(Head(s)) THEN LStrip(Tail(s)) ELSE s

RECURSIVE RStrip(_)
RStrip(s) ==
    IF s # <<>> /\ IsSpace(s[Len(s)]) THEN RStrip(SubSeq(s, 1, Len(s) - 1)) ELSE s

\* str.strip()
Strip(s) == RStrip(LStrip(s))

DigitVal ==
    ("0" :> 0) @@ ("1" :> 1) @@ ("2" :> 2) @@ ("3" :> 3) @@ ("4" :> 4) @@
    ("5" :> 5) @@ ("6" :> 6) @@ ("7" :> 7) @@ ("8" :> 8) @@ ("9" :> 9)

DigitChar == <<"0", "1", "2", "3", "4", "5", "6", "7", "8", "9">>

IsDigits(s) == s # <<>> /\ \A i \in DOMAIN s : s[i] \in DOMAIN DigitVal

\* the number a string of decimal digits denotes
RECURSIVE ParseNat(_)
ParseNat(s) ==
    IF s = <<>> THEN 0
    ELSE 10 * ParseNat(SubSeq(s, 1, Len(s) - 1)) + DigitVal[s[Len(s)]]

\* str(n) for a natural number n
RECURSIVE FormatNat(_)
FormatNat(n) ==
    IF n < 10 THEN <<DigitChar[n + 1]>>
    ELSE FormatNat(n \div 10) \o <<DigitChar[(n % 10) + 1]>>

\* ------------------------------------------------------------------------
\* Cell values and one-row DataFrames
\* ------------------------------------------------------------------------
StrV(s) == [t |-> "str", s |-> s, n |-> 0]
IntV(n) == [t |-> "int", s |-> <<>>, n |-> n]
BoolV(b) == [t |-> "bool", s |-> <<>>, n |-> IF b THEN 1 ELSE 0]
NaN == [t |-> "nan", s |-> <<>>, n |-> 0]

Col(name, val) == [name |-> name, val |-> val]

\* df.columns as a sequence of names
Columns(df) == [i \in DOMAIN df |-> df[i].name]

\* `c in df.columns`
HasColumn(df, c) == \E i \in DOMAIN df : df[i].name = c

\* the number of columns labelled c (more than one after a strip collision)
Count(df, c) == Cardinality({i \in DOMAIN df : df[i].name = c})

HasDuplicateLabels(df) == \E i, j \in DOMAIN df : i # j /\ df[i].name = df[j].name

\* df[c] for a uniquely labelled column
Cell(df, c) == df[CHOOSE i \in DOMAIN df : df[i].name = c].val

\* the outcome of a step: a DataFrame, or the exception it raised
Ok(df) == [ok |-> TRUE, df |-> df, err |-> "none"]
Raise(err) == [ok |-> FALSE, df |-> <<>>, err |-> err]

RECURSIVE Flatten(_)
Flatten(ss) == IF ss = <<>> THEN <<>> ELSE Head(ss) \o Flatten(Tail(ss))

\* ------------------------------------------------------------------------
\* State
\* ------------------------------------------------------------------------
VARIABLES
    phase,         \* "startup", "serving" or "aborted" (module import failed)
    model,         \* the process-wide model handle: where it was loaded from
    FEATURE_FILE,  \* where the feature-schema file was found
    FEATURE_COLS,  \* the feature schema: a sequence of column names
    input,         \* the raw record in hand (JSON body, form values or dict)
    passed,        \* per surface, the dict it handed to predict for `input`
    last,          \* the last operation: surface, response, trace of predict
    resolution,    \* the paths startup went through, and which of them raised
    memo,          \* a caller's note of the first _serve_transform call made
    registry,      \* the model versions in the store promote_model.py works on
    promotion      \* the last call of promote_model_to_production

vars ==
    <<phase, model, FEATURE_FILE, FEATURE_COLS, input, passed, last,
      resolution, memo, registry, promotion>>

\* ------------------------------------------------------------------------
\* Feature transformation constants (inference.py)
\* ------------------------------------------------------------------------
BINARY_MAP ==
    << [col |-> gender,           mapping |-> (s_Female :> 0) @@ (s_Male :> 1)],
       [col |-> Partner,          mapping |-> (s_No :> 0) @@ (s_Yes :> 1)],
       [col |-> Dependents,       mapping |-> (s_No :> 0) @@ (s_Yes :> 1)],
       [col |-> PhoneService,     mapping |-> (s_No :> 0) @@ (s_Yes :> 1)],
       [col |-> PaperlessBilling, mapping |-> (s_No :> 0) @@ (s_Yes :> 1)] >>

NUMERIC_COLS == <<tenure, MonthlyCharges, TotalCharges>>

\* ------------------------------------------------------------------------
\* pandas operations on a one-row frame
\* ------------------------------------------------------------------------
\* df.columns = df.columns.str.strip()
StripColumns(df) == [i \in DOMAIN df |-> Col(Strip(df[i].name), df[i].val)]

\* pd.to_numeric(x, errors="coerce") on one cell
to_numeric(v) ==
    IF v.t = "str"
    THEN IF IsDigits(v.s) THEN IntV(ParseNat(v.s)) ELSE NaN
    ELSE v

\* .fillna(0) on one cell
fillna0(v) == IF v.t = "nan" THEN IntV(0) ELSE v

\* .astype(str) on one cell
astype_str(v) ==
    CASE v.t = "str" -> v.s
      [] v.t = "nan" -> s_nan
      [] OTHER -> FormatNat(v.n)

\* .map(mapping) on one cell holding the string s
map_cell(mapping, s) == IF s \in DOMAIN mapping THEN IntV(mapping[s]) ELSE NaN

\* df[c] = f(df[c]) for the uniquely labelled column c
SetColumn(df, c, v) == [i \in DOMAIN df |-> IF df[i].name = c THEN Col(c, v) ELSE df[i]]

\* one pass of the STEP 1 loop body, for NUMERIC_COLS[k]
CoerceNumeric(df, c) ==
    IF ~HasColumn(df, c) THEN Ok(df)
    ELSE IF Count(df, c) > 1 THEN Raise("TypeError")  \* df[c] is a DataFrame
    ELSE Ok(SetColumn(df, c, fillna0(to_numeric(Cell(df, c)))))

RECURSIVE NumericCoercion(_, _)
NumericCoercion(r, k) ==
    IF ~r.ok \/ k > Len(NUMERIC_COLS) THEN r
    ELSE NumericCoercion(CoerceNumeric(r.df, NUMERIC_COLS[k]), k + 1)

\* faulty variant of EncodeBinary: the value is looked up as it is written,
\* without .str.strip()
EncodeBinary_no_strip(df, b) ==
    IF ~HasColumn(df, b.col) THEN Ok(df)
    ELSE IF Count(df, b.col) > 1 THEN Raise("AttributeError")
    ELSE Ok(SetColumn(df, b.col,
                fillna0(map_cell(b.mapping, astype_str(Cell(df, b.col))))))

\* one pass of the STEP 2 loop body, for the BINARY_MAP item b
EncodeBinary(df, b) ==
    IF ~HasColumn(df, b.col) THEN Ok(df)
    ELSE IF Count(df, b.col) > 1 THEN Raise("AttributeError")  \* DataFrame has no .str
    ELSE Ok(SetColumn(df, b.col,
                fillna0(map_cell(b.mapping, Strip(astype_str(Cell(df, b.col)))))))

RECURSIVE BinaryEncoding(_, _)
BinaryEncoding(r, k) ==
    IF ~r.ok \/ k > Len(BINARY_MAP) THEN r
    ELSE BinaryEncoding(EncodeBinary(r.df, BINARY_MAP[k]), k + 1)

\* df.select_dtypes(include=[dtype]).columns
select_dtypes(df, dtype) == Columns(SelectSeq(df, LAMBDA c : c.val.t = dtype))

\* faulty variant of Levels: drop_first is not applied, the only level of the
\* one-row column is kept
Levels_keeps_first(col, drop_first) == <<col.val.s>>

\* the levels of one encoded column of a one-row frame, after drop_first
Levels(col, drop_first) ==
    LET levels == <<col.val.s>>   \* sorted unique values of the column
    IN  IF drop_first THEN Tail(levels) ELSE levels

\* the indicator columns of one encoded column (prefix_sep="_")
Dummies1d(col, drop_first) ==
    LET levels == Levels(col, drop_first)
    IN  [i \in DOMAIN levels |->
            Col(col.name \o <<"_">> \o levels[i], BoolV(col.val.s = levels[i]))]

\* pd.get_dummies(df, columns=columns, drop_first=drop_first)
get_dummies(df, columns, drop_first) ==
    LET encode == {columns[i] : i \in DOMAIN columns}
        kept == SelectSeq(df, LAMBDA c : c.name \notin encode)
        data_to_encode ==
            Flatten([i \in DOMAIN columns |->
                        SelectSeq(df, LAMBDA c : c.name = columns[i])])
    IN  kept \o Flatten([i \in DOMAIN data_to_encode |->
                            Dummies1d(data_to_encode[i], drop_first)])

\* STEP 3
OneHotEncoding(df) ==
    LET obj_cols == select_dtypes(df, "str")
    IN  IF obj_cols # <<>> THEN get_dummies(df, obj_cols, TRUE) ELSE df

\* STEP 4
BoolToInt(df) ==
    [i \in DOMAIN df |->
        IF df[i].val.t = "bool" THEN Col(df[i].name, IntV(df[i].val.n)) ELSE df[i]]

\* faulty variant of reindex: the frame's own columns that the schema names, with
\* no column inserted for a schema name the frame lacks
reindex_filter_only(df, cols) ==
    IF HasDuplicateLabels(df) THEN Raise("ValueError")
    ELSE Ok(SelectSeq([i \in DOMAIN cols |->
                          Col(cols[i], IF HasColumn(df, cols[i])
                                       THEN Cell(df, cols[i]) ELSE NaN)],
                      LAMBDA c : c.val.t # "nan"))

\* faulty variant of reindex: the schema's names are laid over the frame's
\* values by position, not by label
reindex_by_position(df, cols) ==
    IF HasDuplicateLabels(df) THEN Raise("ValueError")
    ELSE Ok([i \in DOMAIN cols |->
                Col(cols[i], IF i <= Len(df) THEN df[i].val ELSE IntV(0))])

\* df.reindex(columns=cols, fill_value=0)
reindex(df, cols) ==
    IF Columns(df) = cols THEN Ok(df)
    ELSE IF HasDuplicateLabels(df) THEN Raise("ValueError")
    ELSE Ok([i \in DOMAIN cols |->
                Col(cols[i], IF HasColumn(df, cols[i]) THEN Cell(df, cols[i])
                             ELSE IntV(0))])

\* lines 137-178: the working frame after the column-name strip and steps
\* 1 to 4, or the exception raised on the way
WorkingFrame(df) ==
    LET r2 == BinaryEncoding(NumericCoercion(Ok(StripColumns(df)), 1), 1)
    IN  IF ~r2.ok THEN r2 ELSE Ok(BoolToInt(OneHotEncoding(r2.df)))

\* _serve_transform(df): the transformed frame, or the exception raised
serve_transform(df) ==
    LET w == WorkingFrame(df)
    IN  IF ~w.ok THEN w ELSE reindex(w.df, FEATURE_COLS)

\* faulty variant of serve_transform_call: without line 137 the assignments of
\* line 140 and of steps 1 and 2 are made on the caller's frame
serve_transform_call_no_copy(df) ==
    LET r2 == BinaryEncoding(NumericCoercion(Ok(StripColumns(df)), 1), 1)
    IN  [out |-> serve_transform(df),
         caller_df |-> IF r2.ok THEN r2.df ELSE StripColumns(df)]

\* a call _serve_transform(df) as its caller sees it: what is returned or
\* raised, and the caller's frame afterwards (line 137 works on a copy)
serve_transform_call(df) == [out |-> serve_transform(df), caller_df |-> df]

\* ------------------------------------------------------------------------
\* Prediction service (inference.py, predict)
\* ------------------------------------------------------------------------
\* pd.DataFrame([input_dict]): one column per key, in insertion order
DataFrame(input_dict) ==
    [i \in DOMAIN input_dict |-> Col(input_dict[i].name, input_dict[i].val)]

NoError == [type |-> "none", msg |-> "", cause |-> "none"]
Error(type, msg, cause) == [type |-> type, msg |-> msg, cause |-> cause]

NoResult ==
    [prediction |-> "", score |-> 0, raw_prob |-> 0, threshold_used |-> 0,
     features_used |-> <<>>]

\* what the opaque classifier does on one call: whether it exposes
\* predict_proba, whether that raises and else its estimate p (hundredths,
\* a probability), whether predict raises and else its hard label
ProbValues == {0, 34, 35, 100}
Labels == 0..MaxLabel
Behaviour(has_proba, proba_raises, p, pred_raises, label) ==
    [has_proba |-> has_proba, proba_raises |-> proba_raises, p |-> p,
     pred_raises |-> pred_raises, label |-> label]

\* the classifier of a call that never reached it
NoClassifier == Behaviour(FALSE, FALSE, 0, FALSE, 0)

\* what one call of predict did: the exception it raised or the dict it
\* returned, the frame handed to the classifier, the classifier calls made
\* and what the classifier did on them
Raised(err, df_enc, calls, clf) ==
    [raised |-> TRUE, err |-> err, value |-> NoResult,
     transformed |-> df_enc.ok, df_enc |-> df_enc.df, calls |-> calls,
     clf |-> clf]
Returned(value, df_enc, calls, clf) ==
    [raised |-> FALSE, err |-> NoError, value |-> value,
     transformed |-> TRUE, df_enc |-> df_enc.df, calls |-> calls,
     clf |-> clf]
Classifiers ==
    {Behaviour(TRUE, FALSE, p, FALSE, l) : p \in ProbValues, l \in Labels}
    \cup {Behaviour(TRUE, FALSE, p, TRUE, 0) : p \in ProbValues}
    \cup {Behaviour(hp, hp, 0, FALSE, l) : hp \in BOOLEAN, l \in Labels}
    \cup {Behaviour(hp, hp, 0, TRUE, 0) : hp \in BOOLEAN}

\* lines 232-246: prob_churn after the predict_proba attempt.  An estimate
\* that raises (or is malformed, so that indexing or float() raises) is
\* swallowed by the inner handler and leaves the -1.0 sentinel.
ProbaAttempt(clf) ==
    IF clf.has_proba /\ ~clf.proba_raises THEN clf.p ELSE -100

\* the classifier calls predict makes, in order (lines 235-249)
ClassifierCalls(clf) ==
    (IF clf.has_proba THEN <<"predict_proba">> ELSE <<>>) \o <<"predict">>

\* faulty variant of ConsolidateScore: no synthetic score, the sentinel is kept
ConsolidateScore_keep_sentinel(prob_churn, result) == prob_churn

\* lines 259-268: keep a valid probability, else synthesize one from the label
ConsolidateScore(prob_churn, result) ==
    IF prob_churn >= 0 THEN prob_churn
    ELSE IF result = 1 THEN 85 ELSE 15

\* line 270
ScorePct(prob_churn) == prob_churn * 100

\* faulty variant of RiskLabel: a probability equal to the threshold is not
\* high risk
RiskLabel_strict(prob_churn) ==
    IF prob_churn > 35 THEN "Likely to churn" ELSE "Not likely to churn"

\* lines 277-279
RiskLabel(prob_churn) ==
    IF prob_churn >= 35 THEN "Likely to churn" ELSE "Not likely to churn"

\* lines 282-288
ResultDict(prob_churn, df_enc) ==
    [prediction |-> RiskLabel(prob_churn),
     score |-> ScorePct(prob_churn),
     raw_prob |-> prob_churn,
     threshold_used |-> 35,
     features_used |-> Columns(df_enc)]

\* faulty variant of Score: score_pct is computed before the score is consolidated
Score_pct_before_consolidation(df_enc, clf) ==
    IF clf.pred_raises
    THEN Raised(Error("Exception", "Model prediction failed", "classifier"),
                df_enc, ClassifierCalls(clf), clf)
    ELSE Returned([ResultDict(ConsolidateScore(ProbaAttempt(clf), clf.label),
                              df_enc.df)
                      EXCEPT !.score = ScorePct(ProbaAttempt(clf))],
                  df_enc, ClassifierCalls(clf), clf)

\* faulty variant of Score: no outer handler, the classifier's exception leaves
\* predict as it is
Score_unwrapped(df_enc, clf) ==
    IF clf.pred_raises
    THEN Raised(Error("ValueError", "classifier failed", "none"),
                df_enc, ClassifierCalls(clf), clf)
    ELSE Returned(ResultDict(ConsolidateScore(ProbaAttempt(clf), clf.label),
                             df_enc.df),
                  df_enc, ClassifierCalls(clf), clf)

\* lines 231-288: scoring of the transformed frame, with clf the behaviour
\* of the classifier on this call
Score(df_enc, clf) ==
    IF clf.pred_raises
    THEN Raised(Error("Exception", "Model prediction failed", "classifier"),
                df_enc, ClassifierCalls(clf), clf)
    ELSE Returned(ResultDict(ConsolidateScore(ProbaAttempt(clf), clf.label),
                             df_enc.df),
                  df_enc, ClassifierCalls(clf), clf)

\* predict(input_dict): the set of outcomes the call can have, one for
\* each behaviour of the classifier.  An exception of the transformation
\* is raised as it is (lines 223-227 are outside the try).
predict(input_dict) ==
    LET df_enc == serve_transform(DataFrame(input_dict))
    IN  IF ~df_enc.ok
        THEN {Raised(Error(df_enc.err, "transform failed", "none"), df_enc, <<>>,
                    NoClassifier)}
        ELSE {Score(df_enc, clf) : clf \in Classifiers}

\* ------------------------------------------------------------------------
\* Request surface (main.py)
\* ------------------------------------------------------------------------
\* JSON values of a response body: a string or an object (a result dict)
JStr(s) == [type |-> "string", str |-> s, obj |-> NoResult]
JObj(r) == [type |-> "object", str |-> "", obj |-> r]

\* a call of predict that was never made
NoCall ==
    [raised |-> FALSE, err |-> NoError, value |-> NoResult,
     transformed |-> FALSE, df_enc |-> <<>>, calls |-> <<>>,
     clf |-> NoClassifier]

\* what one operation of a surface did: its response, and whether and how
\* it called predict
Outcome(surface, status, body, called, arg, trace) ==
    [surface |-> surface, status |-> status, body |-> body,
     called |-> called, arg |-> arg, trace |-> trace]

NoBody == ("none" :> JStr(""))

NoOp == Outcome("none", 0, NoBody, FALSE, <<>>, NoCall)

\* faulty variant of root: the health check reports the last request's failure
root_reports_failure ==
    IF last.trace.raised
    THEN Outcome("root", 503, ("status" :> JStr("error")), FALSE, <<>>, NoCall)
    ELSE Outcome("root", 200, ("status" :> JStr("ok")), FALSE, <<>>, NoCall)

\* GET /
root == Outcome("root", 200, ("status" :> JStr("ok")), FALSE, <<>>, NoCall)

\* class CustomerData(BaseModel): the declared fields, in declaration order
CustomerData ==
    << [name |-> gender,           type |-> "str"],
       [name |-> Partner,          type |-> "str"],
       [name |-> Dependents,       type |-> "str"],
       [name |-> PhoneService,     type |-> "str"],
       [name |-> MultipleLines,    type |-> "str"],
       [name |-> InternetService,  type |-> "str"],
       [name |-> OnlineSecurity,   type |-> "str"],
       [name |-> OnlineBackup,     type |-> "str"],
       [name |-> DeviceProtection, type |-> "str"],
       [name |-> TechSupport,      type |-> "str"],
       [name |-> StreamingTV,      type |-> "str"],
       [name |-> StreamingMovies,  type |-> "str"],
       [name |-> Contract,         type |-> "str"],
       [name |-> PaperlessBilling, type |-> "str"],
       [name |-> PaymentMethod,    type |-> "str"],
       [name |-> tenure,           type |-> "int"],
       [name |-> MonthlyCharges,   type |-> "float"],
       [name |-> TotalCharges,     type |-> "float"] >>

\* a declared field is present in the body with a value of its type (a
\* numeric field also accepts a string of digits, which is coerced)
FieldValid(body, f) ==
    /\ HasColumn(body, f.name)
    /\ LET v == Cell(body, f.name)
       IN  IF f.type = "str" THEN v.t = "str"
           ELSE v.t = "int" \/ (v.t = "str" /\ IsDigits(v.s))

\* request validation of the body against CustomerData
Validates(body) == \A i \in DOMAIN CustomerData : FieldValid(body, CustomerData[i])

\* data.dict(): the declared fields only, in declaration order, coerced
ModelDict(body) ==
    [i \in DOMAIN CustomerData |->
        Col(CustomerData[i].name,
            IF CustomerData[i].type = "str" THEN Cell(body, CustomerData[i].name)
            ELSE to_numeric(Cell(body, CustomerData[i].name)))]

\* faulty variant of get_prediction: no try/except, the framework answers 500
get_prediction_uncaught(data) ==
    {IF call.raised
     THEN Outcome("rest", 500, ("detail" :> JStr("Internal Server Error")),
                  TRUE, data, call)
     ELSE Outcome("rest", 200, ("prediction" :> JObj(call.value)), TRUE, data, call) :
     call \in predict(data)}

\* get_prediction(data): the handler body, lines 87-93
get_prediction(data) ==
    {IF call.raised
     THEN Outcome("rest", 200, ("error" :> JStr(call.err.msg)), TRUE, data, call)
     ELSE Outcome("rest", 200, ("prediction" :> JObj(call.value)), TRUE, data, call) :
     call \in predict(data)}

\* faulty variant of post_predict: the handler takes the body as a plain dict
post_predict_unvalidated(body) == get_prediction(body)

\* POST /predict: validation of the body, then the handler
post_predict(body) ==
    IF ~Validates(body)
    THEN {Outcome("rest", 422, ("detail" :> JStr("validation error")),
                  FALSE, <<>>, NoCall)}
    ELSE get_prediction(ModelDict(body))

\* the form's widgets and the values each can hold (main.py, 286-316)
YesNo == {s_Yes, s_No}
InternetAddOn == {s_NoInternetService, s_No, s_Yes}
WidgetChoices ==
    << [name |-> gender,           choices |-> {s_Male, s_Female}],
       [name |-> SeniorCitizen,    choices |-> {s_No, s_Yes}],
       [name |-> Partner,          choices |-> YesNo],
       [name |-> Dependents,       choices |-> YesNo],
       [name |-> PhoneService,     choices |-> YesNo],
       [name |-> MultipleLines,    choices |-> {s_NoPhoneService, s_No, s_Yes}],
       [name |-> InternetService,  choices |-> {s_FiberOptic, s_DSL, s_No}],
       [name |-> OnlineSecurity,   choices |-> InternetAddOn],
       [name |-> OnlineBackup,     choices |-> InternetAddOn],
       [name |-> DeviceProtection, choices |-> InternetAddOn],
       [name |-> TechSupport,      choices |-> InternetAddOn],
       [name |-> StreamingTV,      choices |-> InternetAddOn],
       [name |-> StreamingMovies,  choices |-> InternetAddOn],
       [name |-> Contract,         choices |-> {s_MonthToMonth, s_OneYear, s_TwoYear}],
       [name |-> PaperlessBilling, choices |-> YesNo],
       [name |-> PaymentMethod,
        choices |-> {s_ElectronicCheck, s_MailedCheck, s_BankTransfer, s_CreditCard}] >>
NumberWidgets == <<tenure, MonthlyCharges, TotalCharges>>

\* the record is a full set of widget values, as the form submits them
FormShaped(values) ==
    /\ Len(values) = Len(WidgetChoices) + Len(NumberWidgets)
    /\ \A i \in DOMAIN WidgetChoices :
          /\ HasColumn(values, WidgetChoices[i].name)
          /\ Cell(values, WidgetChoices[i].name).t = "str"
          /\ Cell(values, WidgetChoices[i].name).s \in WidgetChoices[i].choices
    /\ \A i \in DOMAIN NumberWidgets :
          /\ HasColumn(values, NumberWidgets[i])
          /\ Cell(values, NumberWidgets[i]).t = "int"

\* int(x), float(x) of a widget value (numbers are whole in this model)
py_number(v) == IF v.t = "str" THEN IntV(ParseNat(v.s)) ELSE v

\* gradio_interface, lines 115-135: the dict built from the widget values
FormData(values) ==
    << Col(gender, Cell(values, gender)),
       Col(SeniorCitizen,
           IntV(IF Cell(values, SeniorCitizen) = StrV(s_Yes) THEN 1 ELSE 0)),
       Col(Partner, Cell(values, Partner)),
       Col(Dependents, Cell(values, Dependents)),
       Col(PhoneService, Cell(values, PhoneService)),
       Col(MultipleLines, Cell(values, MultipleLines)),
       Col(InternetService, Cell(values, InternetService)),
       Col(OnlineSecurity, Cell(values, OnlineSecurity)),
       Col(OnlineBackup, Cell(values, OnlineBackup)),
       Col(DeviceProtection, Cell(values, DeviceProtection)),
       Col(TechSupport, Cell(values, TechSupport)),
       Col(StreamingTV, Cell(values, StreamingTV)),
       Col(StreamingMovies, Cell(values, StreamingMovies)),
       Col(Contract, Cell(values, Contract)),
       Col(PaperlessBilling, Cell(values, PaperlessBilling)),
       Col(PaymentMethod, Cell(values, PaymentMethod)),
       Col(tenure, py_number(Cell(values, tenure))),
       Col(MonthlyCharges, py_number(Cell(values, MonthlyCharges))),
       Col(TotalCharges, py_number(Cell(values, TotalCharges))) >>

\* gradio_interface, lines 161-164: `in` on the dict predict returns tests
\* its keys
RiskReport(result) ==
    IF "Not likely to churn" \in DOMAIN result THEN "LOW RISK" ELSE "HIGH RISK"

\* gradio_interface(...): the report shown, lines 149-171
gradio_interface(values) ==
    LET data == FormData(values)
    IN  {IF call.raised
         THEN Outcome("ui", 200, ("report" :> JStr("ERROR")), TRUE, data, call)
         ELSE Outcome("ui", 200, ("report" :> JStr(RiskReport(call.value))),
                      TRUE, data, call) :
         call \in predict(data)}

\* a direct call of _serve_transform on the caller's frame
direct_transform(df) ==
    LET c == serve_transform_call(df)
    IN  Outcome("transform", 0, NoBody, FALSE, c.caller_df,
                IF c.out.ok
                THEN Returned(NoResult, c.out, <<>>, NoClassifier)
                ELSE Raised(Error(c.out.err, "transform failed", "none"),
                            c.out, <<>>, NoClassifier))

\* a direct call of predict (test_inference.py, lines 29-34)
direct_predict(input_dict) ==
    {Outcome("direct", 0, NoBody, TRUE, input_dict, call) : call \in predict(input_dict)}

\* ------------------------------------------------------------------------
\* Startup model resolution (inference.py, lines 43-96)
\* ------------------------------------------------------------------------
Line(s) == s \o <<"\n">>
Dummy(field, level) == field \o <<"_">> \o level

\* feature_columns.txt of the Production run, as the lines of the file
RegistryFeatureFile ==
    << Line(gender), Line(SeniorCitizen), Line(Partner), Line(Dependents),
       Line(tenure), Line(PhoneService), Line(PaperlessBilling),
       Line(MonthlyCharges), Line(TotalCharges),
       Line(Dummy(InternetService, s_FiberOptic)),
       Line(Dummy(InternetService, s_No)),
       Line(Dummy(Contract, s_OneYear)),
       Line(Dummy(Contract, s_TwoYear)),
       Line(Dummy(PaymentMethod, s_ElectronicCheck)),
       Line(Dummy(PaymentMethod, s_MailedCheck)),
       <<"\n">> >>

\* feature_columns.txt of a local run: another order, fewer columns
LocalFeatureFile ==
    << Line(tenure), Line(MonthlyCharges), Line(TotalCharges),
       Line(<<" ">> \o gender), Line(SeniorCitizen), Line(Partner),
       <<"\n">>,
       Line(Dummy(Contract, s_OneYear)),
       Dummy(Contract, s_TwoYear) >>

FileLines(file) == IF file = "registry" THEN RegistryFeatureFile ELSE LocalFeatureFile

\* line 93: [ln.strip() for ln in f if ln.strip()]
ReadFeatureCols(lines) ==
    LET stripped == [i \in DOMAIN lines |-> Strip(lines[i])]
    IN  SelectSeq(stripped, LAMBDA ln : ln # <<>>)

NoModel == [source |-> "none", tried |-> <<>>]

\* train_run.data.params of the run a model came from: the Production run
\* persisted the threshold 0.5, the local run the usual 0.35
RunParams(source) ==
    IF source = "registry" THEN ("threshold" :> 50) ELSE ("threshold" :> 35)

\* float(train_run.data.params.get("threshold", 0.35))
TrainingThreshold(params) ==
    IF "threshold" \in DOMAIN params THEN params["threshold"] ELSE 35

\* one try block of the startup code: which it is, and whether it raised
Step(path, raised) == [path |-> path, raised |-> raised]

\* faulty variant of Resolve: the local tree is scanned first and the registry
\* is the fallback
Resolve_local_first(reg, loc) ==
    IF loc \in {"in_dir", "in_parent"}
    THEN [ok |-> TRUE,
          model |-> [source |-> "local", tried |-> <<"local">>],
          file |-> IF loc = "in_dir" THEN "local_dir" ELSE "local_parent",
          log |-> <<Step("local", FALSE)>>]
    ELSE IF reg = "ok"
    THEN [ok |-> TRUE,
          model |-> [source |-> "registry", tried |-> <<"local", "registry">>],
          file |-> "registry",
          log |-> <<Step("local", TRUE), Step("registry", FALSE)>>]
    ELSE [ok |-> FALSE, model |-> NoModel, file |-> "none",
          log |-> <<Step("local", TRUE), Step("registry", TRUE)>>]

\* faulty variant of Resolve: the fallback loads the local model only when the
\* registry block had not bound a model yet
Resolve_keeps_registry_model(reg, loc) ==
    IF reg = "ok"
    THEN [ok |-> TRUE, model |-> [source |-> "registry", tried |-> <<"registry">>],
          file |-> "registry", log |-> <<Step("registry", FALSE)>>]
    ELSE IF loc \in {"in_dir", "in_parent"}
    THEN [ok |-> TRUE,
          model |-> [source |-> IF reg \in {"model_dir_fails", "feature_fails"}
                                THEN "registry" ELSE "local",
                     tried |-> <<"registry", "local">>],
          file |-> IF loc = "in_dir" THEN "local_dir" ELSE "local_parent",
          log |-> <<Step("registry", TRUE), Step("local", FALSE)>>]
    ELSE [ok |-> FALSE, model |-> NoModel, file |-> "none",
          log |-> <<Step("registry", TRUE), Step("local", TRUE)>>]

RegistryOutcomes == {"no_version", "load_fails", "model_dir_fails", "feature_fails", "ok"}
LocalOutcomes == {"no_paths", "load_fails", "no_feature_file", "in_dir", "in_parent"}

\* lines 43-88: the model handle and the feature file the two paths yield,
\* or failure; reg and loc are what the registry and the local tree hold
Resolve(reg, loc) ==
    IF reg = "ok"
    THEN [ok |-> TRUE, model |-> [source |-> "registry", tried |-> <<"registry">>],
          file |-> "registry", log |-> <<Step("registry", FALSE)>>]
    ELSE IF loc \in {"in_dir", "in_parent"}
    THEN [ok |-> TRUE,
          model |-> [source |-> "local", tried |-> <<"registry", "local">>],
          file |-> IF loc = "in_dir" THEN "local_dir" ELSE "local_parent",
          log |-> <<Step("registry", TRUE), Step("local", FALSE)>>]
    ELSE [ok |-> FALSE, model |-> NoModel, file |-> "none",
          log |-> <<Step("registry", TRUE), Step("local", TRUE)>>]

\* ------------------------------------------------------------------------
\* Model registry and promotion (scripts/promote_model.py)
\* The script addresses the store under its own project root (lines 11-14);
\* the serving module addresses the one under the working directory, which
\* Startup sees through its registry outcome.
\* ------------------------------------------------------------------------
Runs == {"run_a", "run_b"}            \* the runs the tracking store holds
RunIds == Runs \cup {"run_x"}         \* run ids a caller may pass
ModelNames == {"telco-churn-model", "other-model"}

\* a model version of the registry
ModelVersion(name, version, run_id, stage) ==
    [name |-> name, version |-> version, run_id |-> run_id, stage |-> stage]

\* the version number the registry gives the next version of a model
NextVersion(reg, name) == Cardinality({mv \in reg : mv.name = name}) + 1

\* client.search_model_versions(f"run_id='{run_id}'"): the versions of
\* every registered model that were created from the run
search_model_versions(reg, run_id) == {mv \in reg : mv.run_id = run_id}

\* mlflow.register_model(f"runs:/{run_id}/model", name)
register_model(reg, run_id, name) ==
    reg \cup {ModelVersion(name, NextVersion(reg, name), run_id, "None")}

\* the registry has the version `version` of the model `name`
HasVersion(reg, name, version) ==
    \E mv \in reg : mv.name = name /\ mv.version = version

\* client.transition_model_version_stage(name, version, stage) on an
\* existing version; the other versions keep their stage
transition_model_version_stage(reg, name, version, stage) ==
    {IF mv.name = name /\ mv.version = version
     THEN [mv EXCEPT !.stage = stage] ELSE mv : mv \in reg}

NoPromotion ==
    [called |-> FALSE, run_id |-> "", model_name |-> "", returned |-> FALSE,
     version |-> 0, existed |-> FALSE, before |-> {}]

\* sys.exit(1) of the handler of lines 42-44
Exited(run_id, name, existed, before) ==
    [called |-> TRUE, run_id |-> run_id, model_name |-> name, returned |-> FALSE,
     version |-> 0, existed |-> existed, before |-> before]

\* promote_model_to_production(run_id, model_name=name) on the registry
\* reg: the outcomes the call can have, each with the registry it leaves
promote_model_to_production(reg, run_id, name) ==
    IF run_id \notin Runs
    THEN {[registry |-> reg, result |-> Exited(run_id, name, FALSE, reg)]}
    ELSE LET model_versions == search_model_versions(reg, run_id)
             found == {mv.version : mv \in model_versions}
             reg1 == IF model_versions # {} THEN reg
                     ELSE register_model(reg, run_id, name)
             versions == IF model_versions # {} THEN found
                         ELSE {NextVersion(reg, name)}
         IN  {IF HasVersion(reg1, name, version)
              THEN [registry |->
                        transition_model_version_stage(reg1, name, version,
                                                       "Production"),
                    result |->
                        [called |-> TRUE, run_id |-> run_id, model_name |-> name,
                         returned |-> TRUE, version |-> version,
                         existed |-> model_versions # {}, before |-> reg]]
              ELSE [registry |-> reg1,
                    result |-> Exited(run_id, name, model_versions # {}, reg)] :
              version \in versions}

\* what the startup code printed (lines 51, 63, 66, 85, 87): how the
\* registry block ended and, when the local scan ran, how that ended
StartupReport(reg, loc) ==
    Outcome("startup", 0,
            ("registry" :> JStr(reg)) @@
            ("local" :> JStr(IF reg = "ok" THEN "not scanned" ELSE loc)),
            FALSE, <<>>, NoCall)

\* ------------------------------------------------------------------------
\* Inputs
\* ------------------------------------------------------------------------
RECURSIVE Spaces(_)
Spaces(k) == IF k = 0 THEN <<>> ELSE <<" ">> \o Spaces(k - 1)
Pad(s, k) == Spaces(k) \o s \o Spaces(k)

\* the record of test_inference.py, with four fields left open
Record(g, sc, t, c) ==
    << Col(gender, g), Col(SeniorCitizen, sc), Col(Partner, StrV(s_No)),
       Col(Dependents, StrV(s_No)), Col(tenure, t),
       Col(PhoneService, StrV(s_No)), Col(MultipleLines, StrV(s_NoPhoneService)),
       Col(InternetService, StrV(s_DSL)), Col(OnlineSecurity, StrV(s_No)),
       Col(OnlineBackup, StrV(s_No)), Col(DeviceProtection, StrV(s_No)),
       Col(TechSupport, StrV(s_No)), Col(StreamingTV, StrV(s_No)),
       Col(StreamingMovies, StrV(s_No)), Col(Contract, c),
       Col(PaperlessBilling, StrV(s_Yes)),
       Col(PaymentMethod, StrV(s_ElectronicCheck)),
       Col(MonthlyCharges, IntV(30)), Col(TotalCharges, IntV(30)) >>

Without(d, name) == SelectSeq(d, LAMBDA c : c.name # name)
With(d, name, v) == Append(d, Col(name, v))
Rename(d, old, new) ==
    [i \in DOMAIN d |-> IF d[i].name = old THEN Col(new, d[i].val) ELSE d[i]]

GenderVals ==
    {StrV(s_Female), StrV(s_Other)} \cup {StrV(Pad(s_Male, k)) : k \in 0..MaxPad}
TenureVals == {IntV(1), StrV(s_12), StrV(s_abc), StrV(<<>>)}

test_customer == Record(StrV(s_Female), IntV(1), IntV(1), StrV(s_MonthToMonth))

\* test_customer on another contract
two_year_customer == Record(StrV(s_Female), IntV(1), IntV(1), StrV(s_TwoYear))

\* full sets of widget values
FormInputs ==
    {Record(StrV(g), StrV(sc), IntV(1), StrV(c)) :
        g \in {s_Male, s_Female}, sc \in {s_Yes, s_No},
        c \in {s_MonthToMonth, s_TwoYear}}

\* dicts as a caller of predict writes them, well-formed or not
DictInputs ==
    {Record(g, IntV(1), t, StrV(s_MonthToMonth)) : g \in GenderVals, t \in TenureVals}

\* JSON bodies of the 18 declared fields
BodyInputs ==
    {Without(Record(g, IntV(0), t, StrV(s_TwoYear)), SeniorCitizen) :
        g \in GenderVals, t \in {IntV(1), StrV(s_12), StrV(s_abc)}}

\* fields missing, extra, with padded names, or a number for a category
OddInputs ==
    {Without(test_customer, Partner), Without(test_customer, tenure),
     With(test_customer, s_abc, StrV(s_abc)),
     With(Without(test_customer, Partner), s_abc, IntV(7)),
     With(test_customer, Dummy(Contract, s_TwoYear), IntV(1)),
     Record(IntV(1), IntV(1), IntV(1), StrV(s_MonthToMonth))}
    \cup {Rename(test_customer, tenure, Pad(tenure, k)) : k \in 1..MaxPad}
    \cup {With(test_customer, Pad(tenure, k), IntV(7)) : k \in 1..MaxPad}
    \cup {With(test_customer, Pad(SeniorCitizen, k), IntV(0)) : k \in 1..MaxPad}

Inputs == FormInputs \cup DictInputs \cup BodyInputs \cup OddInputs

\* the records a caller of the module's functions works with
LibInputs ==
    {test_customer, two_year_customer,
     With(test_customer, Dummy(Contract, s_TwoYear), IntV(1)),
     With(two_year_customer, Dummy(Contract, s_TwoYear), IntV(1)),
     Without(test_customer, Partner),
     Record(StrV(Pad(s_Male, MaxPad)), IntV(0), StrV(s_abc), StrV(s_TwoYear))}
    \cup {Rename(test_customer, tenure, Pad(tenure, k)) : k \in 1..MaxPad}
    \cup {With(test_customer, Pad(tenure, k), IntV(7)) : k \in 1..MaxPad}

\* ------------------------------------------------------------------------
\* Actions
\* ------------------------------------------------------------------------
NoInput == <<>>
NotPassed == [called |-> FALSE, arg |-> <<>>]
NonePassed == [rest |-> NotPassed, ui |-> NotPassed]
NoMemo == [made |-> FALSE, record |-> <<>>, out |-> Raise("none"), between |-> FALSE]

\* the caller's note after a call for the record rec: a call for another
\* record than the noted one has come in between
Note(m, rec) ==
    IF m.made /\ rec # m.record THEN [m EXCEPT !.between = TRUE] ELSE m
PassedBy(op) == [called |-> op.called, arg |-> op.arg]

Init ==
    /\ phase = "startup"
    /\ model = NoModel
    /\ FEATURE_FILE = "none"
    /\ FEATURE_COLS = <<>>
    /\ input = NoInput
    /\ passed = NonePassed
    /\ last = NoOp
    /\ resolution = <<>>
    /\ memo = NoMemo
    /\ registry = {}
    /\ promotion = NoPromotion

\* faulty variant of Startup: a schema file that cannot be read is passed over
\* and the service starts with an empty schema
Startup_serves_without_schema ==
    /\ phase = "startup"
    /\ \E reg \in RegistryOutcomes, loc \in LocalOutcomes, readable \in BOOLEAN :
          LET r == Resolve(reg, loc)
          IN  /\ last' = StartupReport(reg, loc)
              /\ IF r.ok
                 THEN /\ phase' = "serving"
                      /\ model' = r.model
                      /\ FEATURE_FILE' = r.file
                      /\ FEATURE_COLS' = IF readable
                                         THEN ReadFeatureCols(FileLines(r.file))
                                         ELSE <<>>
                      /\ resolution' = r.log \o <<Step("schema", ~readable)>>
                 ELSE /\ phase' = "aborted"
                      /\ resolution' = r.log
                      /\ UNCHANGED <<model, FEATURE_FILE, FEATURE_COLS>>
    /\ UNCHANGED <<registry, promotion, input, passed, memo>>

\* import of src.serving.inference: resolution, then the schema is read
Startup ==
    /\ phase = "startup"
    /\ \E reg \in RegistryOutcomes, loc \in LocalOutcomes, readable \in BOOLEAN :
          LET r == Resolve(reg, loc)
          IN  /\ last' = StartupReport(reg, loc)
              /\ IF r.ok /\ readable
                 THEN /\ phase' = "serving"
                      /\ model' = r.model
                      /\ FEATURE_FILE' = r.file
                      /\ FEATURE_COLS' = ReadFeatureCols(FileLines(r.file))
                      /\ resolution' = r.log \o <<Step("schema", FALSE)>>
                 ELSE /\ phase' = "aborted"
                      /\ resolution' =
                            r.log \o (IF r.ok THEN <<Step("schema", TRUE)>> ELSE <<>>)
                      /\ UNCHANGED <<model, FEATURE_FILE, FEATURE_COLS>>
    /\ UNCHANGED <<registry, promotion, input, passed, memo>>

\* a client, a form user or a caller comes with a new raw record
NewInput ==
    /\ phase = "serving"
    /\ \E d \in Inputs : input' = d
    /\ passed' = NonePassed
    /\ last' = NoOp
    /\ UNCHANGED <<registry, promotion, phase, model, FEATURE_FILE, FEATURE_COLS, resolution, memo>>

\* GET /
GetRoot ==
    /\ phase = "serving"
    /\ last' = root
    /\ UNCHANGED <<registry, promotion, phase, model, FEATURE_FILE, FEATURE_COLS, resolution, memo, input, passed>>

\* POST /predict with the record as JSON body
PostPredict ==
    /\ phase = "serving"
    /\ input # NoInput
    /\ \E op \in post_predict(input) :
          /\ last' = op
          /\ passed' = [passed EXCEPT !.rest = PassedBy(op)]
    /\ UNCHANGED <<registry, promotion, phase, model, FEATURE_FILE, FEATURE_COLS, resolution, memo, input>>

\* the form's button, with the record as widget values
SubmitForm ==
    /\ phase = "serving"
    /\ FormShaped(input)
    /\ \E op \in gradio_interface(input) :
          /\ last' = op
          /\ passed' = [passed EXCEPT !.ui = PassedBy(op)]
    /\ UNCHANGED <<registry, promotion, phase, model, FEATURE_FILE, FEATURE_COLS, resolution, memo, input>>

\* predict(record) called directly
DirectPredict ==
    /\ phase = "serving"
    /\ input # NoInput
    /\ \E op \in direct_predict(input) : last' = op
    /\ memo' = Note(memo, input)
    /\ UNCHANGED <<registry, promotion, phase, model, FEATURE_FILE, FEATURE_COLS, resolution, input, passed>>

\* faulty variant of DirectTransform: the transformation adds the columns it
\* does not know to the module's schema
DirectTransform_grows_schema ==
    /\ phase = "serving"
    /\ input # NoInput
    /\ LET op == direct_transform(DataFrame(input))
           w == WorkingFrame(DataFrame(input))
           known == {FEATURE_COLS[j] : j \in DOMAIN FEATURE_COLS}
       IN  /\ last' = op
           /\ memo' = IF memo.made THEN Note(memo, input)
                      ELSE [made |-> TRUE, record |-> input,
                            out |-> serve_transform(DataFrame(input)),
                            between |-> FALSE]
           /\ FEATURE_COLS' =
                 IF w.ok
                 THEN FEATURE_COLS \o SelectSeq(Columns(w.df), LAMBDA c : c \notin known)
                 ELSE FEATURE_COLS
    /\ UNCHANGED <<registry, promotion, phase, model, FEATURE_FILE, resolution, input, passed>>

\* _serve_transform(pd.DataFrame([record])) called directly; the caller
\* notes the first call made
DirectTransform ==
    /\ phase = "serving"
    /\ input # NoInput
    /\ LET op == direct_transform(DataFrame(input))
       IN  /\ last' = op
           /\ memo' = IF memo.made THEN Note(memo, input)
                      ELSE [made |-> TRUE, record |-> input,
                            out |-> serve_transform(DataFrame(input)),
                            between |-> FALSE]
    /\ UNCHANGED <<registry, promotion, phase, model, FEATURE_FILE, FEATURE_COLS, resolution, input, passed>>

\* a caller of the module's functions takes up another record
NewRecord ==
    /\ phase = "serving"
    /\ \E d \in LibInputs : input' = d
    /\ passed' = NonePassed
    /\ last' = NoOp
    /\ UNCHANGED <<registry, promotion, phase, model, FEATURE_FILE, FEATURE_COLS, resolution, memo>>

Next ==
    \/ Startup
    \/ NewInput
    \/ GetRoot
    \/ PostPredict
    \/ SubmitForm
    \/ DirectPredict

Spec == Init /\ [][Next]_vars

\* a training run registers its model, once, under one of the names
RegisterModel ==
    /\ \E run_id \in Runs, name \in ModelNames :
          /\ search_model_versions(registry, run_id) = {}
          /\ registry' = register_model(registry, run_id, name)
    /\ promotion' = NoPromotion
    /\ UNCHANGED <<phase, model, FEATURE_FILE, FEATURE_COLS, input, passed, last,
                   resolution, memo>>

\* scripts/promote_model.py run for a run id and a model name
Promote ==
    /\ \E run_id \in RunIds, name \in ModelNames :
          \E o \in promote_model_to_production(registry, run_id, name) :
              /\ registry' = o.registry
              /\ promotion' = o.result
    /\ UNCHANGED <<phase, model, FEATURE_FILE, FEATURE_COLS, input, passed, last,
                   resolution, memo>>

\* the registry as the training runs and the promotion script use it
NextRegistry ==
    \/ RegisterModel
    \/ Promote

SpecRegistry == Init /\ [][NextRegistry]_vars

\* the module used as a library: its two functions called directly
NextLib ==
    \/ Startup
    \/ NewRecord
    \/ DirectTransform
    \/ DirectPredict

SpecLib == Init /\ [][NextLib]_vars

\* ------------------------------------------------------------------------
\* Properties
\* ------------------------------------------------------------------------
\* the last operation called predict and the transformation returned a frame
Transformed == last.called /\ last.trace.transformed
\* the last operation called predict and predict returned a result
PredictReturned == last.called /\ ~last.trace.raised

ToMap(d) == {<<d[i].name, d[i].val>> : i \in DOMAIN d}
BinaryCols == {BINARY_MAP[i].col : i \in DOMAIN BINARY_MAP}
NumericCols == {NUMERIC_COLS[i] : i \in DOMAIN NUMERIC_COLS}
RiskLabels == {"Likely to churn", "Not likely to churn"}

\* the schema column col is an indicator column of the field
IsIndicatorOf(col, field) ==
    /\ Len(col) > Len(field) + 1
    /\ SubSeq(col, 1, Len(field) + 1) = field \o <<"_">>

\* C1: the transformed vector is the one training-time preprocessing
\* yields: for every categorical field of the record whose value has an
\* indicator column in the schema (the value is not the training baseline),
\* that column is 1 and the field's other indicator columns are 0.
C1_TrainServeEquivalence ==
    Transformed =>
        \A i \in DOMAIN last.arg :
            LET field == Strip(last.arg[i].name)
                v == last.arg[i].val
            IN  (/\ v.t = "str"
                 /\ field \notin BinaryCols \cup NumericCols
                 /\ \E j \in DOMAIN FEATURE_COLS : FEATURE_COLS[j] = Dummy(field, v.s))
                => \A j \in DOMAIN FEATURE_COLS :
                      IsIndicatorOf(FEATURE_COLS[j], field) =>
                          last.trace.df_enc[j].val =
                              IntV(IF FEATURE_COLS[j] = Dummy(field, v.s) THEN 1 ELSE 0)

\* C2: whatever fields the raw record has, lacks or adds, the columns of the
\* frame _serve_transform returns are exactly FEATURE_COLS, in order.
C2_OutputColumnsAreSchema ==
    Transformed => Columns(last.trace.df_enc) = FEATURE_COLS

\* C2 witness: a record with a field missing and a field added was
\* transformed onto a non-empty schema.
C2_Witness ==
    /\ Transformed
    /\ ~HasColumn(last.arg, Partner)
    /\ HasColumn(last.arg, s_abc)
    /\ Len(last.trace.df_enc) = Len(FEATURE_COLS)
    /\ \E j \in DOMAIN FEATURE_COLS : FEATURE_COLS[j] = Partner

\* the value of the schema column c in the transformed frame is n
OutputIs(c, n) ==
    \A j \in DOMAIN FEATURE_COLS :
        FEATURE_COLS[j] = c => last.trace.df_enc[j].val = IntV(n)

\* C3: for every record whose values are strings or numbers the
\* transformation does not raise; an unparseable tenure, MonthlyCharges or
\* TotalCharges becomes 0 and a value of a binary field that is no key of
\* its BINARY_MAP table becomes 0.
C3_TransformNeverRaises ==
    last.called =>
        /\ last.trace.transformed
        /\ \A i \in DOMAIN last.arg :
              LET c == Strip(last.arg[i].name)
                  v == last.arg[i].val
              IN  /\ (c \in NumericCols /\ v.t = "str" /\ ~IsDigits(v.s))
                        => OutputIs(c, 0)
                  /\ (\E k \in DOMAIN BINARY_MAP :
                          /\ BINARY_MAP[k].col = c
                          /\ Strip(astype_str(v)) \notin DOMAIN BINARY_MAP[k].mapping)
                        => OutputIs(c, 0)

C5_ScoreIsProbTimes100 ==
    PredictReturned => last.trace.value.score = last.trace.value.raw_prob * 100

\* C5 witness: a result with a synthesized probability, from a classifier
\* that exposes no probability estimate.
C5_Witness ==
    /\ PredictReturned
    /\ last.trace.calls = <<"predict">>
    /\ last.trace.value.raw_prob = 85
    /\ last.trace.value.score = 8500

\* C6: when POST /predict scores a valid request, the "prediction" field of
\* the response is one of the two risk-label strings.
C6_PredictionFieldIsLabel ==
    (last.surface = "rest" /\ PredictReturned) =>
        /\ "prediction" \in DOMAIN last.body
        /\ last.body["prediction"].type = "string"
        /\ last.body["prediction"].str \in RiskLabels

\* C7: an exception raised inside predict during POST /predict is answered
\* with a body {"error": <string>} and status 200, the service stays in its
\* serving state, and every valid request is answered with a "prediction"
\* or an "error" body.
C7_ErrorsAreCaught ==
    (last.surface = "rest" /\ last.called) =>
        /\ phase = "serving"
        /\ last.status = 200
        /\ last.trace.raised =>
              (DOMAIN last.body = {"error"} /\ last.body["error"].type = "string")
        /\ ~last.trace.raised => DOMAIN last.body = {"prediction"}

\* C7 witness: the classifier raised during a valid request and the
\* response is the error body.
C7_Witness ==
    /\ last.surface = "rest"
    /\ last.trace.raised
    /\ last.trace.calls # <<>>
    /\ last.body = ("error" :> JStr("Model prediction failed"))
    /\ phase = "serving"

\* C8: a body that lacks a field CustomerData declares is answered 422,
\* predict is not called for it, and the status is not 5xx.
C8_MissingFieldIs422 ==
    (/\ last.surface = "rest"
     /\ \E i \in DOMAIN CustomerData : ~HasColumn(input, CustomerData[i].name))
    => /\ last.status = 422
       /\ ~last.called
       /\ last.trace = NoCall

\* C8 witness: a body without Partner was posted and rejected.
C8_Witness ==
    /\ last.surface = "rest"
    /\ ~HasColumn(input, Partner)
    /\ HasColumn(input, tenure)
    /\ last.status = 422

\* C9: once startup has succeeded GET / can always be requested, and its
\* response is always status 200 with body {"status": "ok"}.
C9_HealthAlwaysOk ==
    /\ phase = "serving" => ENABLED GetRoot
    /\ last.surface = "root" =>
          (last.status = 200 /\ last.body = ("status" :> JStr("ok")))

\* C9 witness: GET / answered after both prediction surfaces were used.
C9_Witness ==
    /\ last.surface = "root"
    /\ passed.rest.called
    /\ passed.ui.called
    /\ last.status = 200

\* C10: for the same customer, POST /predict and the form hand predict the
\* same field-to-value mapping, SeniorCitizen included, and so the same
\* feature vector reaches the classifier.
C10_SurfacesPassSameMapping ==
    (passed.rest.called /\ passed.ui.called) =>
        /\ ToMap(passed.rest.arg) = ToMap(passed.ui.arg)
        /\ serve_transform(DataFrame(passed.rest.arg)) =
              serve_transform(DataFrame(passed.ui.arg))

\* the classifier operations predict invoked, as a set
Invoked == {last.trace.calls[i] : i \in DOMAIN last.trace.calls}

\* C11: when the classifier exposes a probability estimate, raw_prob is that
\* estimate and the classifier is not asked for a hard label; when it
\* exposes none, the hard label is asked for and raw_prob is 0.85 for the
\* label 1 and 0.15 otherwise.
C11_EstimateOrHardLabel ==
    PredictReturned =>
        LET clf == last.trace.clf
        IN  /\ (clf.has_proba /\ ~clf.proba_raises) =>
                  /\ last.trace.value.raw_prob = clf.p
                  /\ "predict" \notin Invoked
            /\ ~clf.has_proba =>
                  /\ last.trace.calls = <<"predict">>
                  /\ last.trace.value.raw_prob = IF clf.label = 1 THEN 85 ELSE 15

\* C12: the decision threshold predict applies to the probability, and
\* reports as threshold_used, is the 'threshold' parameter persisted by the
\* training run of the loaded model.
C12_ThresholdFromTrainingRun ==
    PredictReturned =>
        LET t == TrainingThreshold(RunParams(model.source))
        IN  /\ last.trace.value.threshold_used = t
            /\ last.trace.value.prediction = "Likely to churn"
                  <=> last.trace.value.raw_prob >= t

\* the last operation called predict and the classifier was reached
Scored == last.called /\ last.trace.transformed

\* predict raised the wrapped error of the outer handler and returned nothing
RaisedWrapped ==
    /\ last.trace.raised
    /\ last.trace.err = Error("Exception", "Model prediction failed", "classifier")
    /\ last.trace.value = NoResult

Attempted(path) == \E i \in DOMAIN resolution : resolution[i].path = path
\* the try block of this path raised
PathRaised(path) == \E i \in DOMAIN resolution : resolution[i] = Step(path, TRUE)

\* C14: at startup the registry path is tried first and the local scan is
\* made if and only if the registry path raised; when the registry path
\* completes, the model and the feature-schema file in use are those of the
\* registry's Production version.
C14_FallbackIffRegistryRaised ==
    phase # "startup" =>
        /\ resolution[1].path = "registry"
        /\ Attempted("local") <=> PathRaised("registry")
        /\ (phase = "serving" /\ ~PathRaised("registry")) =>
              /\ model.source = "registry"
              /\ FEATURE_FILE = "registry"
              /\ FEATURE_COLS = ReadFeatureCols(RegistryFeatureFile)

\* C14 witness: the registry path raised, the local scan found a model and
\* its schema file, and the service is serving the local model.
C14_Witness ==
    /\ phase = "serving"
    /\ resolution = <<Step("registry", TRUE), Step("local", FALSE),
                      Step("schema", FALSE)>>
    /\ model.source = "local"
    /\ FEATURE_FILE = "local_parent"

\* C15: if both resolution paths fail, or the feature-schema file cannot be
\* read, startup aborts and nothing can be requested any more; in every
\* state where a request can be scored a model is loaded and the feature
\* schema has been read from its file.
C15_NoServingWithoutModelAndSchema ==
    /\ ((PathRaised("registry") /\ PathRaised("local")) \/ PathRaised("schema"))
          => phase = "aborted"
    /\ phase = "aborted" => (model = NoModel /\ ~ENABLED Next)
    /\ phase = "serving" =>
          /\ model # NoModel
          /\ FEATURE_FILE # "none"
          /\ resolution[Len(resolution)] = Step("schema", FALSE)
          /\ FEATURE_COLS = ReadFeatureCols(FileLines(FEATURE_FILE))

\* C15 witness: the local fallback found a model but its schema file could
\* not be read, and startup aborted.
C15_Witness ==
    /\ phase = "aborted"
    /\ resolution = <<Step("registry", TRUE), Step("local", FALSE),
                      Step("schema", TRUE)>>
    /\ model = NoModel
    /\ FEATURE_COLS = <<>>

\* C16: once the service is serving, no call of _serve_transform or of
\* predict changes the model handle, the schema file in use or FEATURE_COLS,
\* and after the call the caller's record and the caller's DataFrame are as
\* the caller made them.
C16_CallsLeaveStateAndInputAlone ==
    [][phase = "serving" =>
          /\ model' = model
          /\ FEATURE_FILE' = FEATURE_FILE
          /\ FEATURE_COLS' = FEATURE_COLS
          /\ last'.surface \in {"transform", "direct"} =>
                /\ input' = input
                /\ last'.surface = "transform" => last'.arg = DataFrame(input)
                /\ last'.surface = "direct" => last'.arg = input]_vars

\* C16 witness: _serve_transform was called on a frame with a padded column
\* name and a string tenure, returned a frame, and the caller's frame still
\* has the padded name and the string.
C16_Witness ==
    /\ last.surface = "transform"
    /\ last.trace.transformed
    /\ HasColumn(input, Pad(tenure, 1))
    /\ HasColumn(last.arg, Pad(tenure, 1))
    /\ Cell(last.arg, gender).t = "str"
    /\ last.arg = input

\* the result of the last direct _serve_transform call
LastOut ==
    IF last.trace.transformed THEN Ok(last.trace.df_enc)
    ELSE Raise(last.trace.err.type)

\* C17: a direct _serve_transform call for the record of the first call
\* made gives what the first call gave, whatever records were transformed
\* or scored in between.
C17_TransformIsRepeatable ==
    (last.surface = "transform" /\ memo.made /\ memo.record = input)
        => LastOut = memo.out

\* C17 witness: the record of the first call was transformed again after
\* another record had been transformed or scored, with the same frame.
C17_Witness ==
    /\ last.surface = "transform"
    /\ memo.made
    /\ memo.between
    /\ memo.record = input
    /\ memo.out.ok
    /\ last.trace.df_enc = memo.out.df
    /\ Len(memo.out.df) > 0

C19_AlignmentKeepsOrZeroFills ==
    Transformed =>
        LET w == WorkingFrame(DataFrame(last.arg)).df
            out == last.trace.df_enc
            schema == {FEATURE_COLS[j] : j \in DOMAIN FEATURE_COLS}
        IN  /\ Len(out) = Len(FEATURE_COLS)
            /\ \A j \in DOMAIN FEATURE_COLS :
                  out[j].val = IF HasColumn(w, FEATURE_COLS[j])
                               THEN Cell(w, FEATURE_COLS[j]) ELSE IntV(0)
            /\ \A i \in DOMAIN w : w[i].name \notin schema => ~HasColumn(out, w[i].name)
            /\ \A i \in DOMAIN last.arg :
                  (last.arg[i].name = SeniorCitizen /\ last.arg[i].val.t = "int")
                      => OutputIs(SeniorCitizen, last.arg[i].val.n)
            /\ (\A i \in DOMAIN last.arg : Strip(last.arg[i].name) # SeniorCitizen)
                  => OutputIs(SeniorCitizen, 0)

\* C19 witness: a record with a key that is a schema column of its own was
\* transformed: that value is kept, the sibling indicator column is filled
\* with 0 and the raw Contract field is not in the output.
C19_Witness ==
    /\ Transformed
    /\ HasColumn(last.arg, Dummy(Contract, s_TwoYear))
    /\ \E j \in DOMAIN FEATURE_COLS :
          /\ FEATURE_COLS[j] = Dummy(Contract, s_TwoYear)
          /\ last.trace.df_enc[j].val = IntV(1)
    /\ \E j \in DOMAIN FEATURE_COLS :
          /\ FEATURE_COLS[j] = Dummy(Contract, s_OneYear)
          /\ last.trace.df_enc[j].val = IntV(0)
    /\ ~HasColumn(last.trace.df_enc, Contract)

\* the record handed to predict has the field c with the value v
ArgHas(c, v) == \E i \in DOMAIN last.arg : last.arg[i] = Col(c, v)

\* C20: for each of the five binary fields the record has, the encoded value
\* is an integer 0 or 1, and it is the BINARY_MAP entry of the value turned
\* into a string and trimmed when there is one: " Male " and "Male" give 1,
\* "Female" 0, "Yes" 1, "No" 0.
C20_BinaryEncoding ==
    Transformed =>
        /\ \A i \in DOMAIN last.arg, k \in DOMAIN BINARY_MAP :
              Strip(last.arg[i].name) = BINARY_MAP[k].col =>
                  LET trimmed == Strip(astype_str(last.arg[i].val))
                      mapping == BINARY_MAP[k].mapping
                  IN  \A j \in DOMAIN FEATURE_COLS :
                          FEATURE_COLS[j] = BINARY_MAP[k].col =>
                              /\ last.trace.df_enc[j].val \in {IntV(0), IntV(1)}
                              /\ trimmed \in DOMAIN mapping =>
                                    last.trace.df_enc[j].val = IntV(mapping[trimmed])
        /\ ArgHas(gender, StrV(<<" ">> \o s_Male \o <<" ">>)) => OutputIs(gender, 1)
        /\ ArgHas(gender, StrV(s_Male)) => OutputIs(gender, 1)
        /\ ArgHas(gender, StrV(s_Female)) => OutputIs(gender, 0)
        /\ ArgHas(gender, IntV(1)) => OutputIs(gender, 0)
        /\ ArgHas(Partner, StrV(s_No)) => OutputIs(Partner, 0)
        /\ ArgHas(PaperlessBilling, StrV(s_Yes)) => OutputIs(PaperlessBilling, 1)

\* C20 witness: a record whose gender is " Male " was transformed and the
\* gender column of the output is 1, its PaperlessBilling "Yes" is 1 and
\* its Partner "No" is 0.
C20_Witness ==
    /\ Transformed
    /\ ArgHas(gender, StrV(<<" ">> \o s_Male \o <<" ">>))
    /\ ArgHas(PaperlessBilling, StrV(s_Yes))
    /\ \E j \in DOMAIN FEATURE_COLS :
          FEATURE_COLS[j] = gender /\ last.trace.df_enc[j].val = IntV(1)
    /\ \E j \in DOMAIN FEATURE_COLS :
          FEATURE_COLS[j] = PaperlessBilling /\ last.trace.df_enc[j].val = IntV(1)
    /\ \E j \in DOMAIN FEATURE_COLS :
          FEATURE_COLS[j] = Partner /\ last.trace.df_enc[j].val = IntV(0)

\* C21: when the form's call of predict returns a result, the report is
\* "LOW RISK" exactly when the result's prediction is "Not likely to churn"
\* and "HIGH RISK" exactly when it is "Likely to churn".
C21_ReportFollowsPrediction ==
    (last.surface = "ui" /\ PredictReturned) =>
        /\ last.body["report"].str = "LOW RISK"
              <=> last.trace.value.prediction = "Not likely to churn"
        /\ last.body["report"].str = "HIGH RISK"
              <=> last.trace.value.prediction = "Likely to churn"

\* the versions a registry holds, without their stages
VersionsOf(reg) == {<<mv.name, mv.version, mv.run_id>> : mv \in reg}

\* C22: whenever promote_model_to_production(run_id, model_name) returns a
\* version, the registry holds that version of model_name, created from
\* run_id and in stage Production; and when a registered version of run_id
\* existed before the call, the call registered no new version.
C22_PromotedVersionIsOfRun ==
    promotion.returned =>
        /\ ModelVersion(promotion.model_name, promotion.version,
                        promotion.run_id, "Production") \in registry
        /\ promotion.existed => VersionsOf(registry) = VersionsOf(promotion.before)

\* C23: whenever startup succeeds the model handle and the feature-schema
\* file come from the same resolution path, and when the registry block had
\* loaded its model and then failed to obtain the model folder or the
\* schema file, the model served is the local one with the local schema.
C23_ModelAndSchemaFromSamePath ==
    phase = "serving" =>
        /\ model.source = "registry" <=> FEATURE_FILE = "registry"
        /\ model.source = "local" <=> FEATURE_FILE \in {"local_dir", "local_parent"}
        /\ model.source \in {"registry", "local"}
        /\ (/\ last.surface = "startup"
            /\ last.body["registry"].str \in {"model_dir_fails", "feature_fails"})
              => (model.source = "local" /\ FEATURE_FILE # "registry")

\* C23 witness: startup has just succeeded after the registry block loaded
\* the model and failed on the schema file; the local model is served with
\* the schema file of its folder.
C23_Witness ==
    /\ phase = "serving"
    /\ last.surface = "startup"
    /\ last.body["registry"].str = "feature_fails"
    /\ last.body["local"].str = "in_dir"
    /\ model.source = "local"
    /\ FEATURE_FILE = "local_dir"
    /\ FEATURE_COLS = ReadFeatureCols(LocalFeatureFile)

\* the string category fields that BINARY_MAP does not encode
CategoryFields ==
    {MultipleLines, InternetService, OnlineSecurity, OnlineBackup,
     DeviceProtection, TechSupport, StreamingTV, StreamingMovies, Contract,
     PaymentMethod}

\* two records with the same keys that differ, and only in string values
\* of category fields
DifferOnlyInCategories(a, b) ==
    /\ Len(a) = Len(b)
    /\ a # b
    /\ \A i \in DOMAIN a :
          /\ a[i].name = b[i].name
          /\ a[i].val # b[i].val =>
                /\ Strip(a[i].name) \in CategoryFields
                /\ a[i].val.t = "str"
                /\ b[i].val.t = "str"

\* the schema column is a one-hot indicator column of a category field
IsIndicator(col) == \E field \in CategoryFields : IsIndicatorOf(col, field)

\* a direct _serve_transform call was made for a record that differs from
\* the record of the first call only in category fields
CategoryPair ==
    /\ last.surface = "transform"
    /\ memo.made
    /\ DifferOnlyInCategories(memo.record, input)

====
